---- MODULE Spec2Model ----
(***************************************************************************)
(* Model of app.py: the patient event dashboard.  One run of main() loads  *)
(* the workbook, derives the computed columns, drops the rows without both *)
(* dates, builds the four sidebar selectors, filters and renders.  Every   *)
(* widget change re-runs main() from the top.                              *)
(***************************************************************************)
EXTENDS Integers, Sequences, FiniteSets, TLC

VARIABLES
    file,       \* the workbook on disk: [status, rows]
    pc,         \* position of the current run of main()
    df,         \* the data frame `df` (raw rows after the load, records after processing)
    options,    \* the four selector candidate lists (months, diagnoses, age_groups, org_units)
    selected,   \* the four values returned by the selectboxes in this run
    filtered,   \* the data frame `filtered_patients`
    ui,         \* the elements written to the page by this run, in order
    table,      \* patient_details as handed to st.dataframe
    charts,     \* the series handed to the five figures
    age_in,     \* argument of a stand-alone call of get_age_group
    age_out,    \* its outcome
    memo        \* observer: selection and output of one earlier run

vars == <<file, pc, df, options, selected, filtered, ui, table, charts, age_in, age_out, memo>>

-----------------------------------------------------------------------------
(* Text.  A str is a sequence of one-character strings, so that strip(),   *)
(* int() and sorted() can be computed on it.                               *)

Alphabet ==
    <<" ", "+", "-", "0", "1", "2", "3", "4", "5", "6", "7", "8", "9",
      "A", "B", "C", "D", "F", "G", "M", "N", "T", "U", "Y",
      "a", "b", "c", "e", "g", "i", "k", "l", "n", "o", "p", "r", "s", "t", "u", "w">>

\* position of a character in code-point order
Ord(c) == CHOOSE i \in 1..Len(Alphabet) : Alphabet[i] = c

Digits == <<"0", "1", "2", "3", "4", "5", "6", "7", "8", "9">>

IsDigit(c) == \E i \in 1..10 : Digits[i] = c

DigitVal(c) == (CHOOSE i \in 1..10 : Digits[i] = c) - 1

IsSpace(c) == c = " "

RECURSIVE LStrip(_)
LStrip(s) == IF s # <<>> /\ IsSpace(Head(s)) THEN LStrip(Tail(s)) ELSE s

RECURSIVE RStrip(_)
RStrip(s) ==
    IF s # <<>> /\ IsSpace(s[Len(s)]) THEN RStrip(SubSeq(s, 1, Len(s) - 1)) ELSE s

\* str.strip()
Strip(s) == RStrip(LStrip(s))

\* s < t for str (lexicographic by code point)
RECURSIVE StrLess(_, _)
StrLess(s, t) ==
    IF t = <<>> THEN FALSE
    ELSE IF s = <<>> THEN TRUE
    ELSE IF Head(s) # Head(t) THEN Ord(Head(s)) < Ord(Head(t))
    ELSE StrLess(Tail(s), Tail(t))

\* sorted(list of str) of a set of distinct values
RECURSIVE SortedList(_)
SortedList(S) ==
    IF S = {} THEN <<>>
    ELSE LET least == CHOOSE x \in S : \A y \in S \ {x} : StrLess(x, y)
         IN  <<least>> \o SortedList(S \ {least})

\* the literals of the program
STR_Unknown == <<"U", "n", "k", "n", "o", "w", "n">>
STR_0_14 == <<"0", "-", "1", "4", " ", "Y", "e", "a", "r", "s">>
STR_15_49 == <<"1", "5", "-", "4", "9", " ", "Y", "e", "a", "r", "s">>
STR_50_64 == <<"5", "0", "-", "6", "4", " ", "Y", "e", "a", "r", "s">>
STR_65_plus == <<"6", "5", "+", " ", "Y", "e", "a", "r", "s">>
STR_All == <<"A", "l", "l">>
STR_All_Diagnoses == <<"A", "l", "l", " ", "D", "i", "a", "g", "n", "o", "s", "e", "s">>
STR_All_Age_Groups == <<"A", "l", "l", " ", "A", "g", "e", " ", "G", "r", "o", "u", "p", "s">>
STR_All_Units == <<"A", "l", "l", " ", "U", "n", "i", "t", "s">>
STR_nan == <<"n", "a", "n">>
STR_NaT == <<"N", "a", "T">>

AgeGroupLabels == {STR_0_14, STR_15_49, STR_50_64, STR_65_plus, STR_Unknown}

-----------------------------------------------------------------------------
(* Cell values.  A cell read from the workbook is one of                    *)
(*   [kind |-> "nan"]                    an empty cell (NaN / None / NaT)   *)
(*   [kind |-> "int", v |-> n]           an integer                         *)
(*   [kind |-> "float", num, den]        a finite float num/den             *)
(*   [kind |-> "inf", neg |-> BOOLEAN]   a float infinity                   *)
(*   [kind |-> "str", s |-> chars]       text                               *)
(*   [kind |-> "ts", y, m, d, h]         a datetime                         *)

NaN == [kind |-> "nan"]

IntCell(n) == [kind |-> "int", v |-> n]

FloatCell(n, d) == [kind |-> "float", num |-> n, den |-> d]

InfCell(neg) == [kind |-> "inf", neg |-> neg]

StrCell(s) == [kind |-> "str", s |-> s]

TsCell(y, m, d, h) == [kind |-> "ts", y |-> y, m |-> m, d |-> d, h |-> h]

\* pd.isna(x) of a scalar
IsNa(x) == x.kind = "nan"

RECURSIVE DigitsValue(_, _)
DigitsValue(s, acc) ==
    IF s = <<>> THEN acc ELSE DigitsValue(Tail(s), 10 * acc + DigitVal(Head(s)))

\* int(x): [ok |-> TRUE, v |-> n] or [ok |-> FALSE, exc |-> the exception raised]
IntOf(x) ==
    CASE x.kind = "int" -> [ok |-> TRUE, v |-> x.v]
      [] x.kind = "float" ->
            \* truncation toward zero
            [ok |-> TRUE,
             v |-> IF x.num >= 0 THEN x.num \div x.den ELSE -((-x.num) \div x.den)]
      [] x.kind = "inf" -> [ok |-> FALSE, exc |-> "OverflowError"]
      [] x.kind = "nan" -> [ok |-> FALSE, exc |-> "ValueError"]
      [] x.kind = "ts" -> [ok |-> FALSE, exc |-> "TypeError"]
      [] x.kind = "str" ->
            LET t == Strip(x.s)
                signed == t # <<>> /\ Head(t) \in {"+", "-"}
                body == IF signed THEN Tail(t) ELSE t
            IN  IF body # <<>> /\ \A i \in 1..Len(body) : IsDigit(body[i])
                THEN [ok |-> TRUE,
                      v |-> IF signed /\ Head(t) = "-"
                            THEN -DigitsValue(body, 0) ELSE DigitsValue(body, 0)]
                ELSE [ok |-> FALSE, exc |-> "ValueError"]

\* the exceptions the except clause of get_age_group catches
Caught == {"ValueError", "TypeError"}

\* get_age_group(age): [ret |-> label] or [raise |-> exception]
get_age_group(age) ==
    IF IsNa(age) THEN [ret |-> STR_Unknown]
    ELSE LET c == IntOf(age)
         IN  IF ~c.ok
             THEN IF c.exc \in Caught THEN [ret |-> STR_Unknown] ELSE [raise |-> c.exc]
             ELSE IF 0 <= c.v /\ c.v <= 14 THEN [ret |-> STR_0_14]
             ELSE IF 15 <= c.v /\ c.v <= 49 THEN [ret |-> STR_15_49]
             ELSE IF 50 <= c.v /\ c.v <= 64 THEN [ret |-> STR_50_64]
             ELSE IF c.v >= 65 THEN [ret |-> STR_65_plus]
             ELSE [ret |-> STR_Unknown]

Raises(r) == "raise" \in DOMAIN r

-----------------------------------------------------------------------------
(* Dates.  A Timestamp is [y, m, d, h] (hour resolution); NaT is NaN.       *)

IsLeap(y) == (y % 4 = 0 /\ y % 100 # 0) \/ y % 400 = 0

DaysInMonth(y, m) ==
    IF m = 2 THEN (IF IsLeap(y) THEN 29 ELSE 28)
    ELSE IF m \in {4, 6, 9, 11} THEN 30 ELSE 31

ValidDate(y, m, d, h) ==
    /\ m \in 1..12
    /\ d \in 1..DaysInMonth(y, m)
    /\ h \in 0..23

\* text of the form YYYY-MM-DD
IsIsoDate(s) ==
    /\ Len(s) = 10
    /\ s[5] = "-" /\ s[8] = "-"
    /\ \A i \in {1, 2, 3, 4, 6, 7, 9, 10} : IsDigit(s[i])

\* pd.to_datetime(cell, errors='coerce'), then .dt.tz_localize(None) on naive values.
\* Date cells of the workbook are datetimes, text or empty.
to_datetime(x) ==
    CASE x.kind = "nan" -> NaN
      [] x.kind = "ts" -> x
      [] x.kind = "str" ->
            LET t == Strip(x.s)
            IN  IF ~IsIsoDate(t) THEN NaN
                ELSE LET y == DigitsValue(SubSeq(t, 1, 4), 0)
                         m == DigitsValue(SubSeq(t, 6, 7), 0)
                         d == DigitsValue(SubSeq(t, 9, 10), 0)
                     IN  IF ValidDate(y, m, d, 0) THEN TsCell(y, m, d, 0) ELSE NaN

\* days since 1970-01-01 of a civil date (proleptic Gregorian)
DaysFromCivil(y, m, d) ==
    LET yy == IF m <= 2 THEN y - 1 ELSE y
        era == yy \div 400
        yoe == yy - era * 400
        mp == IF m > 2 THEN m - 3 ELSE m + 9
        doy == (153 * mp + 2) \div 5 + d - 1
        doe == yoe * 365 + yoe \div 4 - yoe \div 100 + doy
    IN  era * 146097 + doe - 719468

\* seconds since the epoch of a Timestamp
EpochSeconds(t) == DaysFromCivil(t.y, t.m, t.d) * 86400 + t.h * 3600

Abs(n) == IF n < 0 THEN -n ELSE n

RECURSIVE Gcd(_, _)
Gcd(a, b) == IF b = 0 THEN a ELSE Gcd(b, a % b)

\* the number n/d, in lowest terms, as <<numerator, denominator>>
Ratio(n, d) == LET g == Gcd(Abs(n), d) IN <<n \div g, d \div g>>

\* (a - b).total_seconds() / (24 * 3600); NaN when either side is NaT
SubtractDays(a, b) ==
    IF IsNa(a) \/ IsNa(b) THEN NaN
    ELSE [kind |-> "days", q |-> Ratio(EpochSeconds(a) - EpochSeconds(b), 24 * 3600)]

RECURSIVE ZeroPad(_, _)
ZeroPad(n, width) ==
    IF width = 0 THEN <<>> ELSE ZeroPad(n \div 10, width - 1) \o <<Digits[(n % 10) + 1]>>

\* t.to_period('M') as str: YYYY-MM
MonthLabel(t) == ZeroPad(t.y, 4) \o <<"-">> \o ZeroPad(t.m, 2)

RECURSIVE Decimal(_)
Decimal(n) == IF n < 10 THEN <<Digits[n + 1]>> ELSE Decimal(n \div 10) \o <<Digits[(n % 10) + 1]>>

\* astype(str) of a text-column cell
AsStr(x) ==
    CASE x.kind = "str" -> x.s
      [] x.kind = "nan" -> STR_nan
      [] x.kind = "int" -> IF x.v < 0 THEN <<"-">> \o Decimal(-x.v) ELSE Decimal(x.v)

-----------------------------------------------------------------------------
(* Data processing (the block after the load).  A data frame is a sequence *)
(* of rows; idx is the row's index label, kept by every selection.         *)

Range(s) == {s[i] : i \in 1..Len(s)}

\* df[c] as a list
Column(frame, c) == [i \in 1..Len(frame) |-> frame[i][c]]

\* df[c].unique(), as a set
Unique(frame, c) == {frame[i][c] : i \in 1..Len(frame)}

\* pd.read_excel: the rows of the sheet, indexed from 0
ReadRows(rows) ==
    [i \in 1..Len(rows) |->
        [idx |-> i - 1, Sex |-> rows[i].Sex, Age |-> rows[i].Age,
         Event_date |-> rows[i].Event_date,
         Date_of_Discharge |-> rows[i].Date_of_Discharge,
         Primary_diagnosis |-> rows[i].Primary_diagnosis,
         Organisation_unit_name |-> rows[i].Organisation_unit_name]]

\* does df['M&MCCoD Age'].apply(get_age_group) raise
ApplyRaises(frame) == \E i \in 1..Len(frame) : Raises(get_age_group(frame[i].Age))

\* variant: dropna(subset=[event]) only
DropNa_event_only(frame) == SelectSeq(frame, LAMBDA r : ~IsNa(r.Event_date))

\* the rows that keep both dates: dropna(subset=[event, discharge])
DropNa(frame) ==
    SelectSeq(frame, LAMBDA r : ~IsNa(r.Event_date) /\ ~IsNa(r.Date_of_Discharge))

\* variant: discharge minus event
LengthOfStay_swapped(r) == SubtractDays(r.Date_of_Discharge, r.Event_date)

\* length_of_stay_days of one row
LengthOfStay(r) == SubtractDays(r.Event_date, r.Date_of_Discharge)

\* one row after the apply and the two to_datetime assignments
Coerced(r) ==
    [idx |-> r.idx, Sex |-> r.Sex, Age |-> r.Age,
     Age_Group |-> get_age_group(r.Age).ret,
     Event_date |-> to_datetime(r.Event_date),
     Date_of_Discharge |-> to_datetime(r.Date_of_Discharge),
     Primary_diagnosis |-> r.Primary_diagnosis,
     Organisation_unit_name |-> r.Organisation_unit_name]

\* one kept row after length_of_stay_days, Month and the four astype(str).str.strip()
Derived(r) ==
    [idx |-> r.idx, Sex |-> r.Sex, Age |-> r.Age,
     Age_Group |-> Strip(r.Age_Group),
     Event_date |-> r.Event_date,
     Date_of_Discharge |-> r.Date_of_Discharge,
     length_of_stay_days |-> LengthOfStay(r),
     Month |-> IF IsNa(r.Event_date) THEN STR_NaT ELSE Strip(MonthLabel(r.Event_date)),
     Primary_diagnosis |-> Strip(AsStr(r.Primary_diagnosis)),
     Organisation_unit_name |-> Strip(AsStr(r.Organisation_unit_name))]

\* the whole processing block, for a frame on which apply does not raise
Process(frame) ==
    LET kept == DropNa([i \in 1..Len(frame) |-> Coerced(frame[i])])
    IN  [i \in 1..Len(kept) |-> Derived(kept[i])]

-----------------------------------------------------------------------------
(* Sidebar and filters.                                                     *)

\* [sentinel] + sorted(df[c].unique().tolist())
Choices(sentinel, frame, c) == <<sentinel>> \o SortedList(Unique(frame, c))

months(frame) == Choices(STR_All, frame, "Month")

diagnoses(frame) == Choices(STR_All_Diagnoses, frame, "Primary_diagnosis")

age_groups(frame) == Choices(STR_All_Age_Groups, frame, "Age_Group")

org_units(frame) == Choices(STR_All_Units, frame, "Organisation_unit_name")

NoOptions == [months |-> <<>>, diagnoses |-> <<>>, age_groups |-> <<>>, org_units |-> <<>>]

\* what a selectbox returns before the user touches it: its first option
DefaultSelection ==
    [month |-> STR_All, diagnosis |-> STR_All_Diagnoses,
     age_group |-> STR_All_Age_Groups, organisation_unit |-> STR_All_Units]

\* variant: the diagnosis filter selects from df again instead of narrowing
filtered_patients_restart(frame, sel) ==
    LET f0 == frame
        f1 == IF sel.month # STR_All
              THEN SelectSeq(f0, LAMBDA r : r.Month = sel.month) ELSE f0
        f2 == IF sel.diagnosis # STR_All_Diagnoses
              THEN SelectSeq(f0, LAMBDA r : r.Primary_diagnosis = sel.diagnosis) ELSE f1
        f3 == IF sel.age_group # STR_All_Age_Groups
              THEN SelectSeq(f2, LAMBDA r : r.Age_Group = sel.age_group) ELSE f2
        f4 == IF sel.organisation_unit # STR_All_Units
              THEN SelectSeq(f3, LAMBDA r : r.Organisation_unit_name = sel.organisation_unit)
              ELSE f3
    IN  f4

\* filtered_patients: df.copy() narrowed by the four if-statements in turn
filtered_patients(frame, sel) ==
    LET f0 == frame
        f1 == IF sel.month # STR_All
              THEN SelectSeq(f0, LAMBDA r : r.Month = sel.month) ELSE f0
        f2 == IF sel.diagnosis # STR_All_Diagnoses
              THEN SelectSeq(f1, LAMBDA r : r.Primary_diagnosis = sel.diagnosis) ELSE f1
        f3 == IF sel.age_group # STR_All_Age_Groups
              THEN SelectSeq(f2, LAMBDA r : r.Age_Group = sel.age_group) ELSE f2
        f4 == IF sel.organisation_unit # STR_All_Units
              THEN SelectSeq(f3, LAMBDA r : r.Organisation_unit_name = sel.organisation_unit)
              ELSE f3
    IN  f4

-----------------------------------------------------------------------------
(* Display.                                                                 *)

\* patient_details: six columns, index 1..n
patient_details(frame) ==
    [i \in 1..Len(frame) |->
        [Sex |-> frame[i].Sex, Age |-> frame[i].Age, Age_Group |-> frame[i].Age_Group,
         Primary_diagnosis |-> frame[i].Primary_diagnosis,
         Organisation_unit_name |-> frame[i].Organisation_unit_name,
         length_of_stay_days |-> frame[i].length_of_stay_days]]

\* groupby(c).size() and df[c].value_counts(): value -> number of rows
Counts(frame, c) ==
    [v \in Unique(frame, c) |-> Cardinality({i \in 1..Len(frame) : frame[i][c] = v})]

\* variant: one box per diagnosis of df, as a categorical column would give
BoxGroups_all_categories(frame) ==
    LET keys == SortedList(Unique(df, "Primary_diagnosis"))
    IN  [k \in 1..Len(keys) |->
            [key |-> keys[k],
             values |-> Column(SelectSeq(frame, LAMBDA r : r.Primary_diagnosis = keys[k]),
                               "length_of_stay_days")]]

\* the series drawn by boxplot(column=length_of_stay_days, by=diagnosis):
\* one box per diagnosis of the frame, in sorted key order
BoxGroups(frame) ==
    LET keys == SortedList(Unique(frame, "Primary_diagnosis"))
    IN  [k \in 1..Len(keys) |->
            [key |-> keys[k],
             values |-> Column(SelectSeq(frame, LAMBDA r : r.Primary_diagnosis = keys[k]),
                               "length_of_stay_days")]]

NoCharts == [n \in {} |-> <<>>]

\* the five series of the charts section
ChartSeries(frame) ==
    [monthly_trend |-> Counts(frame, "Month"),
     age_dist |-> Counts(frame, "Age_Group"),
     org_counts |-> Counts(frame, "Organisation_unit_name"),
     los_hist |-> Column(SelectSeq(frame, LAMBDA r : ~IsNa(r.length_of_stay_days)),
                         "length_of_stay_days"),
     los_box |-> BoxGroups(frame)]

ChartNames == {"monthly_trend", "age_dist", "org_counts", "los_hist", "los_box"}

\* DataFrame.empty
Empty(frame) == Len(frame) = 0

-----------------------------------------------------------------------------
(* Inputs.                                                                  *)

MaxRows == 2

TXT_Flu == <<"F", "l", "u">>
TXT_Flu_padded == <<" ", "F", "l", "u", " ">>
TXT_ClinicA == <<"C", "l", "i", "n", "i", "c", "A">>
TXT_ClinicB == <<"C", "l", "i", "n", "i", "c", "B">>
TXT_ClinicB_padded == <<"C", "l", "i", "n", "i", "c", "B", " ">>
TXT_M == <<"M">>
TXT_F == <<"F">>
TXT_abc == <<"a", "b", "c">>
TXT_12 == <<" ", "1", "2">>
TXT_na == <<"n", "a">>
TXT_2024_02_01 == <<"2", "0", "2", "4", "-", "0", "2", "-", "0", "1">>
TXT_2024_02_30 == <<"2", "0", "2", "4", "-", "0", "2", "-", "3", "0">>

Row(sex, age, ev, dis, diag, org) ==
    [Sex |-> StrCell(sex), Age |-> age, Event_date |-> ev, Date_of_Discharge |-> dis,
     Primary_diagnosis |-> diag, Organisation_unit_name |-> org]

\* the rows a workbook is made of
RowPool ==
    { Row(TXT_M, IntCell(30), TsCell(2024, 1, 10, 0), TsCell(2024, 1, 5, 0),
          StrCell(TXT_Flu), StrCell(TXT_ClinicA)),
      Row(TXT_F, IntCell(70), StrCell(TXT_2024_02_01), TsCell(2024, 1, 20, 0),
          StrCell(TXT_Flu), StrCell(TXT_ClinicB)),
      Row(TXT_F, StrCell(TXT_abc), TsCell(2024, 1, 5, 12), TsCell(2024, 1, 10, 0),
          StrCell(TXT_Flu_padded), StrCell(TXT_ClinicB_padded)),
      Row(TXT_M, NaN, StrCell(TXT_na), TsCell(2024, 1, 5, 0),
          StrCell(TXT_Flu), StrCell(TXT_ClinicA)),
      Row(TXT_M, IntCell(10), TsCell(2024, 2, 1, 0), NaN,
          StrCell(TXT_Flu), StrCell(TXT_ClinicB)),
      Row(TXT_F, FloatCell(29, 2), TsCell(2024, 3, 1, 0), StrCell(TXT_2024_02_30),
          StrCell(TXT_Flu), StrCell(TXT_ClinicA)),
      Row(TXT_F, StrCell(TXT_12), TsCell(2024, 2, 1, 0), TsCell(2024, 1, 20, 0),
          StrCell(STR_All_Diagnoses), StrCell(STR_All_Units)),
      Row(TXT_M, IntCell(-1), TsCell(2024, 3, 1, 0), TsCell(2024, 2, 28, 0),
          NaN, StrCell(TXT_ClinicA)),
      Row(TXT_M, InfCell(FALSE), TsCell(2024, 1, 10, 0), TsCell(2024, 1, 5, 0),
          StrCell(TXT_Flu), StrCell(TXT_ClinicA)) }

\* read_excel infers one type per column: a float infinity is only read from an
\* age column whose every cell converts to a number, and then text cells are numbers too
AgeColumnInferred(rows) ==
    (\E i \in 1..Len(rows) : rows[i].Age.kind = "inf")
        => \A i \in 1..Len(rows) : rows[i].Age.kind \in {"int", "float", "inf", "nan"}

Sheets(pool) ==
    {rows \in UNION {[1..n -> pool] : n \in 0..MaxRows} : AgeColumnInferred(rows)}

Workbooks(pool) ==
    {[status |-> "missing", rows |-> <<>>], [status |-> "corrupt", rows |-> <<>>]}
    \cup {[status |-> "ok", rows |-> rows] : rows \in Sheets(pool)}

-----------------------------------------------------------------------------
(* One run of main(), and the re-run a widget change triggers.              *)

NoMemo == [taken |-> FALSE]

Fresh ==
    /\ pc = "load"
    /\ df = <<>>
    /\ options = NoOptions
    /\ selected = DefaultSelection
    /\ filtered = <<>>
    /\ ui = <<"title">>
    /\ table = <<>>
    /\ charts = NoCharts

Init ==
    /\ file \in Workbooks(RowPool)
    /\ Fresh
    /\ age_in = NaN
    /\ age_out = [ret |-> STR_Unknown]
    /\ memo = NoMemo

\* os.path.exists(file_path) is false
LoadMissing ==
    /\ pc = "load"
    /\ file.status = "missing"
    /\ ui' = ui \o <<"error", "info">>
    /\ pc' = "returned"
    /\ UNCHANGED <<file, df, options, selected, filtered, table, charts, age_in, age_out, memo>>

\* variant: the except clause reports the error and falls through
LoadFails_no_return ==
    /\ pc = "load"
    /\ file.status = "corrupt"
    /\ ui' = ui \o <<"error">>
    /\ pc' = "process"
    /\ UNCHANGED <<file, df, options, selected, filtered, table, charts, age_in, age_out, memo>>

\* pd.read_excel raises
LoadFails ==
    /\ pc = "load"
    /\ file.status = "corrupt"
    /\ ui' = ui \o <<"error">>
    /\ pc' = "returned"
    /\ UNCHANGED <<file, df, options, selected, filtered, table, charts, age_in, age_out, memo>>

LoadOk ==
    /\ pc = "load"
    /\ file.status = "ok"
    /\ df' = ReadRows(file.rows)
    /\ ui' = ui \o <<"success">>
    /\ pc' = "process"
    /\ UNCHANGED <<file, options, selected, filtered, table, charts, age_in, age_out, memo>>

\* the data processing block; an exception out of apply ends the run
DataProcessing ==
    /\ pc = "process"
    /\ IF ApplyRaises(df)
       THEN /\ pc' = "exception"
            /\ ui' = ui \o <<"exception">>
            /\ UNCHANGED df
       ELSE /\ pc' = "sidebar"
            /\ df' = Process(df)
            /\ UNCHANGED ui
    /\ UNCHANGED <<file, options, selected, filtered, table, charts, age_in, age_out, memo>>

\* the four option lists and the four selectboxes
Sidebar ==
    /\ pc = "sidebar"
    /\ options' = [months |-> months(df), diagnoses |-> diagnoses(df),
                   age_groups |-> age_groups(df), org_units |-> org_units(df)]
    /\ \E m \in Range(months(df)), d \in Range(diagnoses(df)),
          a \in Range(age_groups(df)), o \in Range(org_units(df)) :
            selected' = [month |-> m, diagnosis |-> d, age_group |-> a,
                         organisation_unit |-> o]
    /\ ui' = ui \o <<"sidebar">>
    /\ pc' = "filter"
    /\ UNCHANGED <<file, df, filtered, table, charts, age_in, age_out, memo>>

\* variant: the if-statements narrow df itself
ApplyFilters_in_place ==
    /\ pc = "filter"
    /\ filtered' = filtered_patients(df, selected)
    /\ df' = filtered'
    /\ pc' = "display"
    /\ UNCHANGED <<file, options, selected, ui, table, charts, age_in, age_out, memo>>

\* filtered_patients = df.copy(), then the four if-statements
ApplyFilters ==
    /\ pc = "filter"
    /\ filtered' = filtered_patients(df, selected)
    /\ pc' = "display"
    /\ UNCHANGED <<file, df, options, selected, ui, table, charts, age_in, age_out, memo>>

\* variant: the charts section without its emptiness test
Render_unguarded_charts ==
    /\ pc = "display"
    /\ IF ~Empty(filtered)
       THEN /\ table' = patient_details(filtered)
            /\ ui' = ui \o <<"details", "dataframe", "analysis", "fig_trend", "fig_age",
                             "fig_org", "fig_hist", "fig_box">>
       ELSE /\ ui' = ui \o <<"details", "warning", "analysis", "fig_trend", "fig_age",
                             "fig_org", "fig_hist", "fig_box">>
            /\ UNCHANGED table
    /\ charts' = ChartSeries(filtered)
    /\ pc' = "done"
    /\ UNCHANGED <<file, df, options, selected, filtered, age_in, age_out>>

\* the details table and the charts section
Render ==
    /\ pc = "display"
    /\ IF ~Empty(filtered)
       THEN /\ table' = patient_details(filtered)
            /\ charts' = ChartSeries(filtered)
            /\ ui' = ui \o <<"details", "dataframe", "analysis", "fig_trend", "fig_age",
                             "fig_org", "fig_hist", "fig_box">>
       ELSE /\ ui' = ui \o <<"details", "warning", "analysis">>
            /\ UNCHANGED <<table, charts>>
    /\ pc' = "done"
    /\ UNCHANGED <<file, df, options, selected, filtered, age_in, age_out>>

Display == Render /\ UNCHANGED memo

\* Display, with the observer free to note what this run selected and showed;
\* once it has noted a run, it marks that a run with another selection completed
DisplayObserved ==
    /\ Render
    /\ \/ memo' = [taken |-> TRUE, between |-> FALSE, selected |-> selected,
                   filtered |-> filtered, table |-> table', charts |-> charts']
       \/ /\ memo.taken /\ selected # memo.selected
          /\ memo' = [memo EXCEPT !.between = TRUE]
       \/ /\ ~(memo.taken /\ selected # memo.selected)
          /\ UNCHANGED memo

\* a widget change: the script runs again from the top with fresh locals
Rerun ==
    /\ pc \in {"done", "returned", "exception"}
    /\ pc' = "load"
    /\ df' = <<>>
    /\ options' = NoOptions
    /\ filtered' = <<>>
    /\ ui' = <<"title">>
    /\ table' = <<>>
    /\ charts' = NoCharts
    /\ selected' = DefaultSelection
    /\ UNCHANGED <<file, age_in, age_out, memo>>

Next ==
    \/ LoadMissing
    \/ LoadFails
    \/ LoadOk
    \/ DataProcessing
    \/ Sidebar
    \/ ApplyFilters
    \/ Display
    \/ Rerun

Spec == Init /\ [][Next]_vars

-----------------------------------------------------------------------------
(* Re-runs under observation: the same program over a smaller pool of rows, *)
(* with the observer keeping one earlier run to compare later runs with.    *)

HistPool ==
    { Row(TXT_M, IntCell(30), TsCell(2024, 1, 10, 0), TsCell(2024, 1, 5, 0),
          StrCell(TXT_Flu), StrCell(TXT_ClinicA)),
      Row(TXT_F, IntCell(70), StrCell(TXT_2024_02_01), TsCell(2024, 1, 20, 0),
          StrCell(TXT_Flu), StrCell(TXT_ClinicB)),
      Row(TXT_F, StrCell(TXT_abc), TsCell(2024, 1, 5, 12), TsCell(2024, 1, 10, 0),
          StrCell(TXT_Flu_padded), StrCell(TXT_ClinicB_padded)) }

InitHist ==
    /\ file \in Workbooks(HistPool)
    /\ Fresh
    /\ age_in = NaN
    /\ age_out = [ret |-> STR_Unknown]
    /\ memo = NoMemo

NextHist ==
    \/ LoadMissing
    \/ LoadFails
    \/ LoadOk
    \/ DataProcessing
    \/ Sidebar
    \/ ApplyFilters
    \/ DisplayObserved
    \/ Rerun

SpecHist == InitHist /\ [][NextHist]_vars

-----------------------------------------------------------------------------
(* get_age_group on its own: one call per behaviour, over a range of ages.  *)

MaxAge == 70
MaxNeg == 3

TXT_minus_3 == <<"-", "3">>
TXT_65 == <<"6", "5", " ">>
TXT_1_5 == <<"1", "-", "5">>

AgeInputs ==
    {NaN, InfCell(FALSE), InfCell(TRUE), TsCell(2024, 1, 10, 0)}
    \cup {IntCell(n) : n \in (-MaxNeg)..MaxAge}
    \cup {FloatCell(n, 2) : n \in ((-2 * MaxNeg)..(2 * MaxNeg)) \cup {29, 99, 129, 131}}
    \cup {StrCell(t) : t \in {TXT_abc, TXT_12, TXT_minus_3, TXT_65, TXT_1_5, TXT_na, <<>>}}

InitAge ==
    /\ file = [status |-> "missing", rows |-> <<>>]
    /\ pc = "call"
    /\ df = <<>>
    /\ options = NoOptions
    /\ selected = DefaultSelection
    /\ filtered = <<>>
    /\ ui = <<>>
    /\ table = <<>>
    /\ charts = NoCharts
    /\ age_in \in AgeInputs
    /\ age_out = [pending |-> TRUE]
    /\ memo = NoMemo

CallAgeGroup ==
    /\ pc = "call"
    /\ age_out' = get_age_group(age_in)
    /\ pc' = "called"
    /\ UNCHANGED <<file, df, options, selected, filtered, ui, table, charts, age_in, memo>>

NextAge == CallAgeGroup

SpecAge == InitAge /\ [][NextAge]_vars

-----------------------------------------------------------------------------
(* Properties.                                                              *)

Count(s, e) == Cardinality({i \in 1..Len(s) : s[i] = e})

\* the run has a processed df
Processed == pc \in {"sidebar", "filter", "display", "done"}

\* the run has a filtered set
Filtered == pc \in {"display", "done"}

\* r passes the selector unless the selector holds its sentinel
Matches(r, sel) ==
    /\ sel.month = STR_All \/ r.Month = sel.month
    /\ sel.diagnosis = STR_All_Diagnoses \/ r.Primary_diagnosis = sel.diagnosis
    /\ sel.age_group = STR_All_Age_Groups \/ r.Age_Group = sel.age_group
    /\ sel.organisation_unit = STR_All_Units \/ r.Organisation_unit_name = sel.organisation_unit

IsSubSeq(s, t) ==
    \E f \in [1..Len(s) -> 1..Len(t)] :
        /\ \A i \in 1..Len(s) : s[i] = t[f[i]]
        /\ \A i, j \in 1..Len(s) : i < j => f[i] < f[j]

\* C1: a record of the derived set is in the filtered set iff it matches every
\* selector that is not at its sentinel; the filtered set holds nothing else, and
\* with all four selectors at their sentinels it is the derived set itself.
C1_FilterIsConjunction ==
    Filtered =>
        /\ \A r \in Range(df) : r \in Range(filtered) <=> Matches(r, selected)
        /\ Range(filtered) \subseteq Range(df)
        /\ IsSubSeq(filtered, df)
        /\ selected = DefaultSelection => filtered = df

C1_Witness ==
    /\ pc = "done"
    /\ selected.month # STR_All
    /\ selected.diagnosis # STR_All_Diagnoses
    /\ \E r \in Range(df) : r \in Range(filtered)
    /\ \E r \in Range(df) :
          r.Month = selected.month /\ r.Primary_diagnosis # selected.diagnosis

\* the rows of the workbook whose two date cells both parse, by index label
ParseableIdx ==
    {i - 1 : i \in {j \in 1..Len(file.rows) :
                        /\ to_datetime(file.rows[j].Event_date) # NaN
                        /\ to_datetime(file.rows[j].Date_of_Discharge) # NaN}}

\* C3: the hard drop removes a row iff one of its two dates failed to parse: the
\* derived set is exactly the rows with both dates, so no record with a missing date
\* is in the derived set, in the month selector or in a filtered set.
C3_DropIffDateMissing ==
    Processed =>
        /\ {r.idx : r \in Range(df)} = ParseableIdx
        /\ Len(df) = Cardinality(ParseableIdx)
        /\ \A r \in Range(df) \cup Range(filtered) :
              ~IsNa(r.Event_date) /\ ~IsNa(r.Date_of_Discharge)
        /\ STR_NaT \notin Range(options.months)
        /\ \A v \in Range(options.months) \ {STR_All} :
              \E r \in Range(df) : ~IsNa(r.Event_date) /\ v = MonthLabel(r.Event_date)

C3_Witness ==
    /\ pc = "done"
    /\ Len(file.rows) = 2
    /\ Len(df) = 1
    /\ IsNa(to_datetime(file.rows[1].Date_of_Discharge))
    /\ Len(filtered) = 1

\* C6: when the workbook is missing or cannot be read, the run ends at the load:
\* one error is reported and no derived frame, selector list, filtered set, table
\* or chart series exists in that run.
C6_LoadErrorAborts ==
    file.status # "ok" =>
        /\ pc \in {"load", "returned"}
        /\ df = <<>> /\ options = NoOptions /\ filtered = <<>>
        /\ table = <<>> /\ charts = NoCharts
        /\ pc = "returned" =>
              /\ Count(ui, "error") = 1
              /\ Range(ui) \subseteq {"title", "error", "info"}

C6_Witness == pc = "returned" /\ file.status = "corrupt" /\ Count(ui, "error") = 1

\* hours from 2024-01-01 00:00 to a timestamp of 2024, by adding up month lengths
RECURSIVE DaysBeforeMonth(_, _)
DaysBeforeMonth(y, m) ==
    IF m = 1 THEN 0 ELSE DaysBeforeMonth(y, m - 1) + DaysInMonth(y, m - 1)

HoursInto2024(t) == (DaysBeforeMonth(t.y, t.m) + t.d - 1) * 24 + t.h

\* C7: length_of_stay_days is event date minus discharge date in days, signed
\* (negative when the discharge is later), present for every record of the derived
\* set and only there; 2024-01-10 minus 2024-01-05 is 5.
C7_LengthOfStay ==
    Processed =>
        \A r \in Range(df) :
            /\ ~IsNa(r.Event_date) /\ ~IsNa(r.Date_of_Discharge)
            /\ r.length_of_stay_days.kind = "days"
            /\ LET q == r.length_of_stay_days.q
               IN  /\ q[2] > 0
                   /\ q[1] * 24 =
                         q[2] * (HoursInto2024(r.Event_date) - HoursInto2024(r.Date_of_Discharge))
                   /\ q[1] < 0 <=>
                         HoursInto2024(r.Date_of_Discharge) > HoursInto2024(r.Event_date)
                   /\ (r.Event_date = TsCell(2024, 1, 10, 0)
                       /\ r.Date_of_Discharge = TsCell(2024, 1, 5, 0)) => q = <<5, 1>>

C7_Witness ==
    /\ pc = "done"
    /\ \E r \in Range(df) : r.length_of_stay_days.q = <<5, 1>>
    /\ \E r \in Range(df) : r.length_of_stay_days.q = <<-9, 2>>

\* the elements of the page that tell the user there is nothing to show
NoDataSignals == Count(ui, "warning")

Figures == {"fig_trend", "fig_age", "fig_org", "fig_hist", "fig_box"}

RECURSIVE SumHours(_)
SumHours(vs) ==
    IF vs = <<>> THEN 0 ELSE (Head(vs).q[1] * 24) \div Head(vs).q[2] + SumHours(Tail(vs))

\* mean(g) >= mean(h), for non-empty boxes
MeanAtLeast(g, h) == SumHours(g.values) * Len(h.values) >= SumHours(h.values) * Len(g.values)

C9_RunsAreIndependent ==
    /\ [](  (memo.taken /\ pc = "done" /\ selected = memo.selected)
            => (filtered = memo.filtered /\ table = memo.table /\ charts = memo.charts))
    /\ [][(pc \in {"filter", "display"}) => (df' = df)]_vars

\* a later run repeats the noted selection after a run that selected otherwise
C9_Witness ==
    /\ memo.taken
    /\ memo.between
    /\ pc = "done"
    /\ selected = memo.selected
    /\ selected # DefaultSelection
    /\ Len(filtered) < Len(df)
    /\ ~Empty(filtered)

\* the entries of a selector's list after the sentinel
Offered(list) == Tail(list)

NoDuplicates(s) == \A i, j \in 1..Len(s) : i # j => s[i] # s[j]

\* the selection of v in one selector, the other three left at their sentinels
Only(field, v) == [DefaultSelection EXCEPT ![field] = v]

\* C10: the entries offered after the sentinel are the distinct trimmed values of the
\* derived set, and selecting one of them alone returns exactly the records holding
\* it, of which there is at least one.
C10_OfferedValueSelectsItsRecords ==
    pc = "done" =>
        \A p \in {<<"months", "month", "Month">>,
                  <<"diagnoses", "diagnosis", "Primary_diagnosis">>,
                  <<"age_groups", "age_group", "Age_Group">>,
                  <<"org_units", "organisation_unit", "Organisation_unit_name">>} :
            LET list == Offered(options[p[1]])
            IN  /\ NoDuplicates(list)
                /\ Range(list) = Unique(df, p[3])
                /\ \A v \in Range(list) :
                      /\ Strip(v) = v
                      /\ selected = Only(p[2], v) =>
                            /\ ~Empty(filtered)
                            /\ Range(filtered) = {r \in Range(df) : r[p[3]] = v}

\* the age cell holds no number: empty, text that is no integer literal, or a datetime
NotANumber(x) == IsNa(x) \/ (x.kind \in {"str", "ts"} /\ ~IntOf(x).ok)

\* C2: get_age_group returns the bucket of every integer age, Unknown for a missing
\* or non-numeric age, and one of the five labels for every input.
C2_AgeGroupOfEveryInput ==
    pc = "called" =>
        /\ age_out \in {[ret |-> l] : l \in AgeGroupLabels}
        /\ age_in.kind = "int" =>
              /\ age_in.v \in 0..14 => age_out = [ret |-> STR_0_14]
              /\ age_in.v \in 15..49 => age_out = [ret |-> STR_15_49]
              /\ age_in.v \in 50..64 => age_out = [ret |-> STR_50_64]
              /\ age_in.v >= 65 => age_out = [ret |-> STR_65_plus]
        /\ NotANumber(age_in) => age_out = [ret |-> STR_Unknown]

\* C4: an age that is missing, non-numeric or not convertible to an integer gets
\* Unknown, and the run goes on to the sidebar and the filters: no age value ends it.
C4_BadAgeNeverEndsTheRun ==
    (file.status = "ok" /\ pc \notin {"load", "process"}) =>
        /\ pc # "exception"
        /\ \A r \in Range(df) :
              (IsNa(r.Age) \/ ~IntOf(r.Age).ok) => r.Age_Group = STR_Unknown

====
